---- MODULE Spec2Model ----
(***************************************************************************)
(* SYU-GPT (src/main.py): a Streamlit script that indexes topic text files *)
(* and answers questions through a memoized retrieval+generation call.     *)
(*                                                                         *)
(* Two specifications:                                                     *)
(*   SpecChunk  the per-document body of the indexing loop (lines 45-72):  *)
(*              configuration lookup and CharacterTextSplitter;            *)
(*   Spec       the script as Streamlit runs it: one execution of the      *)
(*              module top to bottom per user interaction.                 *)
(*                                                                         *)
(* Strings of the source that are not ASCII are written in romanised form  *)
(* (the table keys of lines 49-66, the error prefix of line 119); the      *)
(* source line of each is given beside it.                                 *)
(***************************************************************************)
EXTENDS Naturals, Sequences, FiniteSets, TLC

VARIABLES
    \* ---- module globals and framework state (Spec) ----
    hf_embeddings,   \* global, line 24
    docsearch,       \* global, line 25: None or the index (the chunks it holds)
    lru,             \* functools.lru_cache of generate_response, line 78
    resource_cache,  \* st.cache_resource storage of generate_response, line 79
    session_state,   \* st.session_state of the browser session
    remote_calls,    \* observer: remote-model invocations per question
    retrievals,      \* observer: retrieval attempts per question
    first_result,    \* observer: what the first generate_response(q) returned
    lastRun,         \* observer: what the last script run did
    \* ---- locals of the indexing loop (SpecChunk) ----
    cpc,             \* position in the loop body
    doc,             \* the Document being processed, line 45
    file_name,       \* line 47
    chunk_size,      \* line 68
    chunk_overlap,   \* line 69
    splits           \* line 71

appVars   == <<hf_embeddings, docsearch, lru, resource_cache, session_state,
               remote_calls, retrievals, first_result, lastRun>>
chunkVars == <<cpc, doc, file_name, chunk_size, chunk_overlap, splits>>
vars      == <<appVars, chunkVars>>

None == "None"

(***************************************************************************)
(* Bounds of the model.                                                    *)
(***************************************************************************)
\* longest document, in paragraphs, that SpecChunk splits
MaxPieces == 3
\* cap on the per-question observer counters
MaxCalls == 2

(***************************************************************************)
(* Corpus files.  A path is the sequence of its components; the loader's   *)
(* glob is data/SYU_GPT/*.txt (line 41).                                   *)
(***************************************************************************)
\* the table of lines 48-67; keys romanised, in source order:
\*   49 introduce.txt            50 "related links"       51 "traffic"
\*   52 "library"                53 "clubs"               54 "registration"
\*   55 "grades"                 56 "shuttle bus"         57 "course enrolment"
\*   58 "facility info"          59 "phone numbers"       60 "scholarship"
\*   61 "graduation"             62 "certificates"        63 "departments"
\*   64 "academic calendar"      65 "back gate info"      66 "school buildings"
config ==
    ("introduce.txt"                   :> [chunk_size |-> 1500, chunk_overlap |-> 300]) @@
    ("gwanlyeon lingkeu data.txt"      :> [chunk_size |-> 1500, chunk_overlap |-> 300]) @@
    ("gyotong data.txt"                :> [chunk_size |-> 1500, chunk_overlap |-> 300]) @@
    ("doseogwan data.txt"              :> [chunk_size |-> 2000, chunk_overlap |-> 300]) @@
    ("dongali data.txt"                :> [chunk_size |-> 4500, chunk_overlap |-> 300]) @@
    ("deunglog data.txt"               :> [chunk_size |-> 2000, chunk_overlap |-> 300]) @@
    ("seongjeog data.txt"              :> [chunk_size |-> 1500, chunk_overlap |-> 300]) @@
    ("syeoteulbeoseu data.txt"         :> [chunk_size |-> 1000, chunk_overlap |-> 300]) @@
    ("sugangsincheong data.txt"        :> [chunk_size |-> 1500, chunk_overlap |-> 250]) @@
    ("siseol jeongbo data.txt"         :> [chunk_size |-> 2000, chunk_overlap |-> 350]) @@
    ("eobmubyeol jeonhwabeonho data.txt" :> [chunk_size |-> 1000, chunk_overlap |-> 200]) @@
    ("janghaggeum data.txt"            :> [chunk_size |-> 4000, chunk_overlap |-> 100]) @@
    ("joleob data.txt"                 :> [chunk_size |-> 1200, chunk_overlap |-> 250]) @@
    ("jeungmyeongseo data.txt"         :> [chunk_size |-> 2000, chunk_overlap |-> 250]) @@
    ("haggwa data.txt"                 :> [chunk_size |-> 7000, chunk_overlap |-> 500]) @@
    ("hagsa iljeong data.txt"          :> [chunk_size |-> 1500, chunk_overlap |-> 200]) @@
    ("humun jeongbo data.txt"          :> [chunk_size |-> 2000, chunk_overlap |-> 300]) @@
    ("haggyo geonmul data.txt"         :> [chunk_size |-> 3000, chunk_overlap |-> 100])

\* the defaults of the two .get calls, lines 68 and 69
DefaultChunkSize == 1500
DefaultChunkOverlap == 300

\* dict.get(key, default)
DictGet(d, key, default) == IF key \in DOMAIN d THEN d[key] ELSE default

\* faulty variant: the directory instead of the base name is looked up
Basename_FirstComponent(path) == path[1]

\* os.path.basename, line 47
Basename(path) == path[Len(path)]

\* a file name the table does not hold
UnlistedName == "notice data.txt"

FileNames == DOMAIN config \cup {UnlistedName}

SourcePath(name) == <<"data", "SYU_GPT", name>>

\* line 68
ResolveChunkSize(name) ==
    DictGet(DictGet(config, name, <<>>), "chunk_size", DefaultChunkSize)

\* line 69
ResolveChunkOverlap(name) ==
    DictGet(DictGet(config, name, <<>>), "chunk_overlap", DefaultChunkOverlap)

(***************************************************************************)
(* CharacterTextSplitter(chunk_size, chunk_overlap).split_documents, lines *)
(* 70-71.  The splitter cuts the text at its separator (the default, a     *)
(* blank line, two characters) and merges the pieces greedily; it never    *)
(* cuts inside a piece.  A document is modelled by the lengths of its      *)
(* pieces; the text is the pieces joined by the separator.                 *)
(***************************************************************************)
SeparatorLen == 2

RECURSIVE SumLens(_, _, _)
SumLens(lens, a, b) == IF a > b THEN 0 ELSE lens[a] + SumLens(lens, a + 1, b)

\* len(separator.join(pieces a..b))
JoinLen(lens, a, b) == IF a > b THEN 0 ELSE SumLens(lens, a, b) + SeparatorLen * (b - a)

\* the inner while loop of the merge: drop pieces from the front of
\* current_doc (pieces start..i-1) until what is kept fits the overlap and
\* leaves room for piece i
RECURSIVE PopFront(_, _, _, _, _, _)
PopFront(lens, start, i, total, size, overlap) ==
    LET n == i - start
    IN  IF total > overlap
           \/ (total + lens[i] + (IF n > 0 THEN SeparatorLen ELSE 0) > size /\ total > 0)
        THEN PopFront(lens, start + 1, i,
                      total - (lens[start] + (IF n > 1 THEN SeparatorLen ELSE 0)),
                      size, overlap)
        ELSE <<start, total>>

\* one chunk: pieces first..last of the document at source
Chunk(source, lens, first, last_) ==
    [source |-> source, first |-> first, last |-> last_,
     length |-> JoinLen(lens, first, last_)]

\* the merge loop: piece i is next, current_doc is pieces start..i-1 of
\* joined length total, out the chunks emitted so far
RECURSIVE MergeSplits(_, _, _, _, _, _, _, _)
MergeSplits(source, lens, i, start, total, out, size, overlap) ==
    IF i > Len(lens)
    THEN IF start <= Len(lens)
         THEN Append(out, Chunk(source, lens, start, Len(lens)))
         ELSE out
    ELSE LET n     == i - start
             over  == total + lens[i] + (IF n > 0 THEN SeparatorLen ELSE 0) > size
             flush == over /\ n > 0
             out2  == IF flush THEN Append(out, Chunk(source, lens, start, i - 1)) ELSE out
             kept  == IF flush THEN PopFront(lens, start, i, total, size, overlap)
                               ELSE <<start, total>>
             total2 == kept[2] + lens[i] + (IF i - kept[1] > 0 THEN SeparatorLen ELSE 0)
         IN  MergeSplits(source, lens, i + 1, kept[1], total2, out2, size, overlap)

\* text_splitter.split_documents([doc]), line 71
SplitDocument(d, size, overlap) ==
    MergeSplits(d.source, d.pieces, 1, 1, 0, <<>>, size, overlap)

\* the loop of lines 43-72 over the loaded documents
RECURSIVE AllSplits(_)
AllSplits(docs) ==
    IF docs = <<>> THEN <<>>
    ELSE LET d    == Head(docs)
             name == Basename(d.source)
         IN  SplitDocument(d, ResolveChunkSize(name), ResolveChunkOverlap(name))
             \o AllSplits(Tail(docs))

(***************************************************************************)
(* SpecChunk: the body of the indexing loop on one loaded document.        *)
(***************************************************************************)
\* paragraph lengths the documents are made of: below the smallest overlap,
\* below every overlap, between the overlaps and the sizes, above a size
PieceLens == {100, 250, 600, 2500}

PieceSeqs == UNION {[1..n -> PieceLens] : n \in 1..MaxPieces}

\* the Documents loader.load() can return, line 42
Documents == [source : {SourcePath(n) : n \in FileNames}, pieces : PieceSeqs]

\* lines 46-69
ResolveConfig ==
    /\ cpc = "loaded"
    /\ file_name' = Basename(doc.source)
    /\ chunk_size' = ResolveChunkSize(Basename(doc.source))
    /\ chunk_overlap' = ResolveChunkOverlap(Basename(doc.source))
    /\ cpc' = "resolved"
    /\ UNCHANGED <<doc, splits>>
    /\ UNCHANGED appVars

\* lines 70-72
SplitStep ==
    /\ cpc = "resolved"
    /\ splits' = SplitDocument(doc, chunk_size, chunk_overlap)
    /\ cpc' = "done"
    /\ UNCHANGED <<doc, file_name, chunk_size, chunk_overlap>>
    /\ UNCHANGED appVars

(***************************************************************************)
(* Strings.  A string is the sequence of its parts, so that startswith     *)
(* (line 186) and the formatting of line 119 are computed, not assumed.    *)
(***************************************************************************)
\* line 119 and line 186: "oryuga balsaenghaessseubnida:" (an error occurred:)
ErrorPrefix == <<"oryuga balsaenghaessseubnida:">>

\* f"<prefix> {str(e)}", line 119
ErrorString(e) == ErrorPrefix \o <<" ", e>>

\* line 116
Sentinel == <<"Docsearch is not initialized">>

\* str.startswith, line 186
StartsWith(s, prefix) ==
    /\ Len(s) >= Len(prefix)
    /\ SubSeq(s, 1, Len(prefix)) = prefix

(***************************************************************************)
(* Inputs of a script run.                                                 *)
(***************************************************************************)
\* what st.chat_input returns when the user submitted a question (line 181)
Questions == {"q1", "q2"}

\* texts the remote model can return (.content, line 113); the last one is a
\* model text that itself begins with the error prefix
Answers == {<<"answer A">>, <<"answer B">>, ErrorPrefix \o <<" (model text)">>}

\* str(e) of an exception raised inside the try block of lines 82-116
ExceptionTexts == {"deadline exceeded"}

\* what chain.invoke (line 113) does: the retriever raises, the remote call
\* raises, or the remote model answers
ChainOutcomes ==
    [kind : {"retrieval raises", "remote raises"}, text : ExceptionTexts]
    \cup [kind : {"answers"}, text : Answers]

\* where initialize_embeddings_and_docsearch can raise: nowhere, loading the
\* embedding model (line 34), loading the files (line 42), building the
\* index (line 76)
InitFailures == {"none", "embeddings", "loader", "index"}

DocLibrary == [source |-> SourcePath("doseogwan data.txt"), pieces |-> <<600, 2500>>]
DocNotice  == [source |-> SourcePath(UnlistedName), pieces |-> <<250>>]

\* what loader.load() (line 42) finds on disk at the time of a run
Corpora == {<<>>, <<DocLibrary>>, <<DocLibrary, DocNotice>>}

\* no entry: a value that no response equals
Absent == <<"Absent">>

\* the value of the global docsearch before an index is built, line 25
NoIndex == [is_none |-> TRUE, chunks |-> <<>>]

(***************************************************************************)
(* initialize_embeddings_and_docsearch, lines 27-76, from the globals      *)
(* (hf, ds) it finds: the globals it leaves and whether it raised.         *)
(***************************************************************************)
initialize_embeddings_and_docsearch(hf, ds, docs, failure) ==
    LET all_splits == AllSplits(docs)
    IN  IF failure = "embeddings"
        THEN [raised |-> TRUE, hf_embeddings |-> hf, docsearch |-> ds]
        ELSE IF failure = "loader"
        THEN [raised |-> TRUE, hf_embeddings |-> "model", docsearch |-> ds]
        ELSE IF all_splits = <<>>
        THEN [raised |-> FALSE, hf_embeddings |-> "model", docsearch |-> ds]
        ELSE IF failure = "index"
        THEN [raised |-> TRUE, hf_embeddings |-> "model", docsearch |-> ds]
        ELSE [raised |-> FALSE, hf_embeddings |-> "model",
              docsearch |-> [is_none |-> FALSE, chunks |-> all_splits]]

(***************************************************************************)
(* generate_response, lines 78-119.                                        *)
(***************************************************************************)
\* faulty variant: the body without the test of line 83
GenerateBody_NoIndexGuard(user_input, ds, outcome) ==
    [value     |-> IF outcome.kind = "answers"
                   THEN outcome.text
                   ELSE ErrorString(outcome.text),
     retrieved |-> TRUE,
     remote    |-> outcome.kind # "retrieval raises",
     raised    |-> outcome.kind # "answers"]

\* the function body, lines 81-119: the string returned, whether the
\* retriever and the remote model were invoked, whether the except clause
\* of line 117 ran
GenerateBody(user_input, ds, outcome) ==
    IF ~ds.is_none
    THEN [value     |-> IF outcome.kind = "answers"
                        THEN outcome.text
                        ELSE ErrorString(outcome.text),
          retrieved |-> TRUE,
          remote    |-> outcome.kind # "retrieval raises",
          raised    |-> outcome.kind # "answers"]
    ELSE [value |-> Sentinel, retrieved |-> FALSE, remote |-> FALSE,
          raised |-> FALSE]

\* faulty variant: the memo never finds an entry
ResourceCacheHit_NeverHits(cache, key) == FALSE

\* faulty variant: only successful answers are stored
ResourceCacheStore_SkipsFailures(cache, key, value) ==
    IF value = Sentinel \/ StartsWith(value, ErrorPrefix)
    THEN cache
    ELSE [cache EXCEPT ![key] = value]

\* st.cache_resource (line 79): the store is keyed by the argument, holds
\* every returned value, has no capacity bound and no expiry
ResourceCacheHit(cache, key) == cache[key] # Absent

ResourceCacheStore(cache, key, value) == [cache EXCEPT ![key] = value]

\* functools.lru_cache(maxsize=100) (line 78): entries <<key, value>>, the
\* least recently used first
LruMaxSize == 100

LruHit(entries, key) == \E k \in 1..Len(entries) : entries[k][1] = key

LruValue(entries, key) ==
    (CHOOSE k \in 1..Len(entries) : entries[k][1] = key)
        [2]

LruWithout(entries, key) == SelectSeq(entries, LAMBDA e : e[1] # key)

LruTouch(entries, key, value) ==
    LET e == Append(LruWithout(entries, key), <<key, value>>)
    IN  IF Len(e) > LruMaxSize THEN Tail(e) ELSE e

\* one call of the decorated function: the value returned, the two caches
\* afterwards, and what the call did
generate_response(user_input, ds, entries, cache, outcome) ==
    LET lruHit   == LruHit(entries, user_input)
        memoHit  == ResourceCacheHit(cache, user_input)
        executed == ~lruHit /\ ~memoHit
        computed == GenerateBody(user_input, ds, outcome)
        value    == IF lruHit THEN LruValue(entries, user_input)
                    ELSE IF memoHit THEN cache[user_input]
                    ELSE computed.value
    IN  [response       |-> value,
         lru            |-> LruTouch(entries, user_input, value),
         resource_cache |-> IF executed
                            THEN ResourceCacheStore(cache, user_input, computed.value)
                            ELSE cache,
         memoized       |-> ~executed,
         retrieved      |-> executed /\ computed.retrieved,
         remote         |-> executed /\ computed.remote,
         raised         |-> executed /\ computed.raised]

(***************************************************************************)
(* main(), lines 121-200, and the script around it.                        *)
(***************************************************************************)
\* st.session_state: the keys it holds and the list under "messages"
EmptySession == [keys |-> {}, messages |-> <<>>]

\* the module-level assignments of lines 24-25: Streamlit executes the
\* script top to bottom for every interaction, so each run starts here
ModuleGlobals == [hf_embeddings |-> None, docsearch |-> NoIndex]

\* the module-level definition of lines 78-80 makes a new lru_cache per run;
\* the st.cache_resource store belongs to the server process and is kept
FreshLru == <<>>

\* lines 178-179
InitSession(ss) ==
    IF "chat_session" \notin ss.keys
    THEN [keys |-> ss.keys \cup {"messages"}, messages |-> <<>>]
    ELSE ss

\* faulty variant: the sentinel is treated as a failure too
IsFailure_AlsoSentinel(response) ==
    StartsWith(response, ErrorPrefix) \/ response = Sentinel

\* line 186
IsFailure(response) == StartsWith(response, ErrorPrefix)

\* lines 191 and 198
AppendTurns(ss, user_input, response) ==
    [ss EXCEPT !.messages =
        Append(Append(@, [role |-> "user", content |-> user_input]),
               [role |-> "SYU-GPT", content |-> response])]

NoCall ==
    [response |-> Absent, index_set |-> FALSE, memoized |-> FALSE,
     retrieved |-> FALSE, remote |-> FALSE, raised |-> FALSE]

\* no script run yet in this session
NoRun ==
    [outcome |-> "none", user_input |-> None, init_raised |-> FALSE,
     call |-> NoCall]

Bump(counter, key, did) ==
    IF did THEN [counter EXCEPT ![key] = @ + 1] ELSE counter

\* One execution of the script: the module level, then main().  user_input
\* is what st.chat_input returns (None when nothing was submitted), docs
\* what the loader finds, failure where initialization raises, outcome what
\* the chain does if it is invoked.
ScriptRun(user_input, docs, failure, outcome) ==
    LET init == initialize_embeddings_and_docsearch(
                    ModuleGlobals.hf_embeddings, ModuleGlobals.docsearch,
                    docs, failure)
        ss1  == InitSession(session_state)
        g    == generate_response(user_input, init.docsearch, FreshLru,
                                  resource_cache, outcome)
        call == [response |-> g.response, index_set |-> ~init.docsearch.is_none,
                 memoized |-> g.memoized, retrieved |-> g.retrieved,
                 remote |-> g.remote, raised |-> g.raised]
    IN  /\ user_input # None =>
              /\ remote_calls[user_input] < MaxCalls
              /\ retrievals[user_input] < MaxCalls
        /\ hf_embeddings' = init.hf_embeddings
        /\ docsearch' = init.docsearch
        /\ IF init.raised
           THEN \* line 176 raises out of main(): the run ends there
                /\ lastRun' = [outcome |-> "uncaught", user_input |-> user_input,
                               init_raised |-> TRUE, call |-> NoCall]
                /\ lru' = FreshLru
                /\ UNCHANGED <<resource_cache, session_state, remote_calls,
                               retrievals, first_result>>
           ELSE IF user_input = None
           THEN \* line 181: nothing submitted
                /\ lastRun' = [outcome |-> "idle", user_input |-> None,
                               init_raised |-> FALSE, call |-> NoCall]
                /\ lru' = FreshLru
                /\ session_state' = ss1
                /\ UNCHANGED <<resource_cache, remote_calls, retrievals,
                               first_result>>
           ELSE /\ lru' = g.lru
                /\ resource_cache' = g.resource_cache
                /\ remote_calls' = Bump(remote_calls, user_input, g.remote)
                /\ retrievals' = Bump(retrievals, user_input, g.retrieved)
                /\ first_result' =
                       IF first_result[user_input] = Absent
                       THEN [first_result EXCEPT ![user_input] = g.response]
                       ELSE first_result
                /\ IF IsFailure(g.response)
                   THEN \* line 187
                        /\ session_state' = ss1
                        /\ lastRun' = [outcome |-> "error", user_input |-> user_input,
                                       init_raised |-> FALSE, call |-> call]
                   ELSE IF "messages" \notin ss1.keys
                   THEN \* line 191 raises, line 199 catches
                        /\ session_state' = ss1
                        /\ lastRun' = [outcome |-> "ui error", user_input |-> user_input,
                                       init_raised |-> FALSE, call |-> call]
                   ELSE \* lines 189-198
                        /\ session_state' = AppendTurns(ss1, user_input, g.response)
                        /\ lastRun' = [outcome |-> "answered", user_input |-> user_input,
                                       init_raised |-> FALSE, call |-> call]
        /\ UNCHANGED chunkVars

\* the browser session ends and another begins: st.session_state is empty
\* again; the server process and its cache_resource store live on
NewSession ==
    /\ session_state' = EmptySession
    /\ lastRun' = NoRun
    /\ UNCHANGED <<hf_embeddings, docsearch, lru, resource_cache, remote_calls,
                   retrievals, first_result>>
    /\ UNCHANGED chunkVars

AppInit ==
    /\ hf_embeddings = None
    /\ docsearch = NoIndex
    /\ lru = <<>>
    /\ resource_cache = [q \in Questions |-> Absent]
    /\ session_state = EmptySession
    /\ remote_calls = [q \in Questions |-> 0]
    /\ retrievals = [q \in Questions |-> 0]
    /\ first_result = [q \in Questions |-> Absent]
    /\ lastRun = NoRun

Init ==
    /\ AppInit
    /\ cpc = "idle"
    /\ doc = None
    /\ file_name = None
    /\ chunk_size = None
    /\ chunk_overlap = None
    /\ splits = <<>>

Next ==
    \/ \E user_input \in Questions \cup {None}, docs \in Corpora,
          failure \in InitFailures, outcome \in ChainOutcomes :
           ScriptRun(user_input, docs, failure, outcome)
    \/ NewSession

Spec == Init /\ [][Next]_vars

InitChunk ==
    /\ AppInit
    /\ cpc = "loaded"
    /\ doc \in Documents
    /\ file_name = None
    /\ chunk_size = None
    /\ chunk_overlap = None
    /\ splits = <<>>

NextChunk ==
    \/ ResolveConfig
    \/ SplitStep

SpecChunk == InitChunk /\ [][NextChunk]_vars

(***************************************************************************)
(* Properties.                                                             *)
(***************************************************************************)
Messages == session_state.messages

\* the last script run reached line 185 and generate_response returned
Called == lastRun.outcome \in {"error", "ui error", "answered"}

IsPrefix(a, b) == Len(a) <= Len(b) /\ SubSeq(b, 1, Len(a)) = a

\* C1: a repeated question gets the answer its first call got, and the
\* retriever and the remote model are invoked at most once per question.
C1_RepeatIsMemoized ==
    \A q \in Questions :
        /\ remote_calls[q] <= 1
        /\ retrievals[q] <= 1
        /\ (Called /\ lastRun.user_input = q)
               => lastRun.call.response = first_result[q]

\* C1 witness: a question the remote model answered is asked again and is
\* served from the memo.
C1_Witness ==
    /\ Called
    /\ lastRun.call.memoized
    /\ remote_calls[lastRun.user_input] = 1
    /\ lastRun.call.response \in Answers

C3_Original ==
    [][lastRun'.call.raised
          => /\ StartsWith(lastRun'.call.response, ErrorPrefix)
             /\ Messages' = Messages]_vars

C5_Original ==
    [][lastRun'.outcome # "none" => IsPrefix(Messages, Messages')]_vars

\* C6 (as stated): a run whose initialization raises still answers the
\* submitted question, with the sentinel, and leaves the index unset.
C6_Original ==
    (lastRun.init_raised /\ lastRun.user_input # None)
        => /\ docsearch.is_none
           /\ lastRun.outcome = "answered"
           /\ lastRun.call.response = Sentinel

\* characters of chunk a that chunk b repeats (pieces b.first..a.last)
Shared(a, b) == JoinLen(doc.pieces, b.first, a.last)

\* C7 (as stated): no chunk is longer than the file's chunk_size, two
\* consecutive chunks share at most chunk_overlap characters, and a
\* document shorter than chunk_size yields exactly one chunk.
C7_Original ==
    cpc = "done"
        => /\ \A i \in 1..Len(splits) : splits[i].length <= chunk_size
           /\ \A i \in 1..(Len(splits) - 1) :
                  Shared(splits[i], splits[i + 1]) <= chunk_overlap
           /\ JoinLen(doc.pieces, 1, Len(doc.pieces)) < chunk_size
                  => Len(splits) = 1

\* C8: the pair used for a document is its base name's table entry, or
\* exactly (1500, 300) when the table has no such key, and every chunk of
\* the document is cut with that one pair.
C8_ConfigByBaseName ==
    cpc \in {"resolved", "done"}
        => LET name == doc.source[Len(doc.source)]
           IN  /\ name \in DOMAIN config
                      => /\ chunk_size = config[name].chunk_size
                         /\ chunk_overlap = config[name].chunk_overlap
               /\ name \notin DOMAIN config
                      => /\ chunk_size = 1500
                         /\ chunk_overlap = 300
               /\ name = "doseogwan data.txt"
                      => /\ chunk_size = 2000
                         /\ chunk_overlap = 300
               /\ \A i \in 1..Len(splits) : splits[i].source = doc.source
               /\ splits = SplitDocument(doc, chunk_size, chunk_overlap)
                      \/ cpc = "resolved"

\* C8 witness: a file the table does not list has been split with the
\* default pair.
C8_Witness ==
    /\ cpc = "done"
    /\ file_name = UnlistedName
    /\ chunk_size = 1500
    /\ chunk_overlap = 300
    /\ Len(splits) >= 1

\* C9: a failure result (error string or sentinel) is memoized: the
\* question is never retried, and every later call returns that string.
C9_FailuresAreMemoized ==
    \A q \in Questions :
        LET f == first_result[q]
        IN  /\ f = Sentinel
                   => /\ retrievals[q] = 0
                      /\ remote_calls[q] = 0
            /\ (f # Absent /\ StartsWith(f, ErrorPrefix))
                   => /\ retrievals[q] <= 1
                      /\ remote_calls[q] <= 1
            /\ (f # Absent /\ (f = Sentinel \/ StartsWith(f, ErrorPrefix))
                  /\ Called /\ lastRun.user_input = q)
                   => lastRun.call.response = f

\* C9 witness: the sentinel is served from the memo in a run that has
\* built the index.
C9_Witness ==
    /\ Called
    /\ lastRun.call.memoized
    /\ lastRun.call.index_set
    /\ lastRun.call.response = Sentinel

====
